---- MODULE Spec2Model ----
(***************************************************************************)
(* ThinkPad Reconnect (src/reconnect.py): the status checkers, the         *)
(* remediators and the HTTP handler that calls them, served by a           *)
(* single-threaded http.server.HTTPServer.                                 *)
(*                                                                         *)
(* External commands are the environment: every command a step runs       *)
(* behaves in one of the ways of Behaviours, chosen nondeterministically.  *)
(* Texts are real strings, so joining, truncating and counting segments    *)
(* are computed, not assumed.                                              *)
(***************************************************************************)
EXTENDS Integers, Sequences, FiniteSets, TLC

\* ------------------------------------------------------------------ bounds
\* Longest netstat / mount listing the environment produces (lines).
MaxNetstatLines == 3
MaxMountLines == 2

\* The clients of the HTTP boundary that may have a request outstanding.
Clients == {"c1", "c2"}

\* ------------------------------------------------------------- the requests
StatusPath == "/api/status"
BarrierPath == "/api/reconnect/barrier"
SshPath == "/api/reconnect/ssh"
SmbPath == "/api/reconnect/smb"
AllPath == "/api/reconnect/all"
Paths == {StatusPath, BarrierPath, SshPath, SmbPath, AllPath}

\* -------------------------------------------------- external commands (OS)
\* What a spawned command may do on its own: exit 0, exit non-zero, not exist
\* on PATH, or never terminate.
Behaviours == {"exit0", "nonzero", "missing", "hang"}

\* subprocess.run(cmd, timeout=...) without check=True: the outcome seen by
\* the caller. A command that never terminates is killed at the timeout and
\* TimeoutExpired is raised; without a timeout the caller blocks for ever.
SubprocessRun(b, hasTimeout) ==
    CASE b = "exit0" -> "returned"
      [] b = "nonzero" -> "returned"
      [] b = "missing" -> "FileNotFoundError"
      [] b = "hang" -> IF hasTimeout THEN "TimeoutExpired" ELSE "blocked"

\* subprocess.check_output / check_call: as run, and a non-zero exit raises.
SubprocessCheck(b, hasTimeout) ==
    IF b = "nonzero" THEN "CalledProcessError" ELSE SubprocessRun(b, hasTimeout)

\* subprocess.Popen: spawns and returns at once; only a failed spawn raises.
SubprocessPopen(b) ==
    IF b = "missing" THEN "FileNotFoundError" ELSE "returned"

Raised(outcome) ==
    outcome \in {"FileNotFoundError", "TimeoutExpired", "CalledProcessError"}

\* str(e) of the exception a command raised; argv is repr(cmd), prog is cmd[0].
ExcText(outcome, argv, prog, secs) ==
    CASE outcome = "FileNotFoundError" ->
            "[Errno 2] No such file or directory: '" \o prog \o "'"
      [] outcome = "CalledProcessError" ->
            "Command '" \o argv \o "' returned non-zero exit status 1."
      [] outcome = "TimeoutExpired" ->
            "Command '" \o argv \o "' timed out after " \o secs \o " seconds"

\* -------------------------------------------------------------- text helpers
Min(a, b) == IF a < b THEN a ELSE b

\* s[:n]
Truncate(s, n) == SubSeq(s, 1, Min(n, Len(s)))

Separator == "; "

\* "; ".join(msgs)
RECURSIVE Join(_)
Join(msgs) ==
    IF msgs = <<>> THEN ""
    ELSE IF Len(msgs) = 1 THEN msgs[1]
    ELSE msgs[1] \o Separator \o Join(Tail(msgs))

\* message.split("; "): the positions where a separator starts, and the
\* number of segments they delimit.
SeparatorsAt(s) ==
    {i \in 1..(Len(s) - 1) : SubSeq(s, i, i + 1) = Separator}

Segments(s) == Cardinality(SeparatorsAt(s)) + 1

\* The k-th segment of s (1-based), for 1 <= k <= Segments(s).
Segment(s, k) ==
    LET seps == SeparatorsAt(s)
        starts == {1} \cup {i + 2 : i \in seps}
        from == CHOOSE a \in starts : Cardinality({x \in starts : x < a}) = k - 1
        later == {i \in seps : i >= from}
        to == IF later = {} THEN Len(s)
              ELSE (CHOOSE i \in later : \A j \in later : i <= j) - 1
    IN SubSeq(s, from, to)

\* ------------------------------------------------------------ configuration
BARRIER_PORT == 24800
REMOTE_HOST == "192.168.1.100"

\* ------------------------------------------------------------------ statuses
States == {"connected", "warning", "down"}

Status(state, detail) == [status |-> state, detail |-> detail]

NoStatus == [status |-> "none", detail |-> ""]

\* All sequences over S of length at most n.
SeqsUpTo(S, n) == UNION {[1..k -> S] : k \in 0..n}

\* ------------------------------------------------------------- check_barrier
\* One line of `netstat -an`, as far as check_barrier reads it: whether
\* str(BARRIER_PORT) occurs in it, and which socket state word it carries.
NetstatLines ==
    [port : {BARRIER_PORT, 22}, state : {"ESTABLISHED", "LISTEN", "TIME_WAIT"}]

NetstatProbes ==
    {[b |-> "exit0", out |-> o] : o \in SeqsUpTo(NetstatLines, MaxNetstatLines)}
    \cup {[b |-> x, out |-> <<>>] : x \in Behaviours \ {"exit0"}}

PortIn(line) == line.port = BARRIER_PORT
EstablishedIn(line) == line.state = "ESTABLISHED"
ListenIn(line) == line.state = "LISTEN"

\* The length a diagnostic detail is cut to.
DetailLimit == 60

\* A one-pass scan, answering at the first line that matches either way.
check_barrier_one_pass(probe) ==
    LET outcome == SubprocessCheck(probe.b, TRUE)
        hits == {i \in 1..Len(probe.out) :
                    PortIn(probe.out[i])
                    /\ (EstablishedIn(probe.out[i]) \/ ListenIn(probe.out[i]))}
        first == CHOOSE i \in hits : \A j \in hits : i <= j
    IN  IF Raised(outcome)
        THEN Status("down",
                    Truncate(ExcText(outcome, "['netstat', '-an']", "netstat", "5"),
                             DetailLimit))
        ELSE IF hits = {} THEN Status("down", "Server not running")
        ELSE IF EstablishedIn(probe.out[first])
             THEN Status("connected", "Client connected")
             ELSE Status("warning", "Listening, no client")

\* No bound on the diagnostic: str(e) as it is.
ErrorDetailUntruncated(text) == text

\* str(e)[:60]
ErrorDetail(text) == Truncate(text, DetailLimit)

check_barrier(probe) ==
    LET outcome == SubprocessCheck(probe.b, TRUE)
        out == probe.out
    IN  IF Raised(outcome)
        THEN Status("down",
                    ErrorDetail(ExcText(outcome, "['netstat', '-an']", "netstat", "5")))
        ELSE IF \E i \in 1..Len(out) : PortIn(out[i]) /\ EstablishedIn(out[i])
             THEN Status("connected", "Client connected")
        ELSE IF \E i \in 1..Len(out) : PortIn(out[i]) /\ ListenIn(out[i])
             THEN Status("warning", "Listening, no client")
        ELSE Status("down", "Server not running")

\* ----------------------------------------------------------------- check_ssh
\* pgrep -f "ssh -N.*HOST": its behaviour and its stripped standard output
\* (the matching pids, empty when nothing matched); then the remote `echo ok`.
SshProbes ==
    {[pgrep |-> p, out |-> o, ssh |-> s] :
        p \in Behaviours, o \in {"", "4242"}, s \in Behaviours}

tunnel_running(probe) ==
    IF Raised(SubprocessCheck(probe.pgrep, TRUE)) THEN FALSE
    ELSE probe.out # ""

reachable(probe) == ~Raised(SubprocessCheck(probe.ssh, TRUE))

\* The branches combined with a tunnel that is only looked at when the host
\* is unreachable.
check_ssh_reachable_first(probe) ==
    IF reachable(probe) THEN Status("connected", "Tunnel active")
    ELSE IF tunnel_running(probe)
         THEN Status("warning", "Tunnel proc exists, SSH unreachable")
         ELSE Status("down", "Unreachable")

check_ssh(probe) ==
    IF tunnel_running(probe) /\ reachable(probe)
    THEN Status("connected", "Tunnel active")
    ELSE IF reachable(probe) THEN Status("warning", "SSH OK, tunnel down")
    ELSE IF tunnel_running(probe)
         THEN Status("warning", "Tunnel proc exists, SSH unreachable")
         ELSE Status("down", "Unreachable")

\* ----------------------------------------------------------------- check_smb
\* One line of `mount`, as far as check_smb reads it: whether REMOTE_HOST
\* occurs in it, its filesystem type word, and line.split(" on ").
MountLines ==
    { [host |-> REMOTE_HOST, fs |-> "smbfs",
       parts |-> <<"//user@192.168.1.100/share", "/Volumes/share (smbfs, nodev)">>],
      [host |-> REMOTE_HOST, fs |-> "cifs",
       parts |-> <<"//192.168.1.100/tp", "/mnt/tp type cifs (rw)">>],
      [host |-> REMOTE_HOST, fs |-> "nfs",
       parts |-> <<"192.168.1.100:/export", "/mnt/nfs (nfs)">>],
      [host |-> "10.0.0.5", fs |-> "smbfs",
       parts |-> <<"//user@10.0.0.5/media", "/Volumes/media (smbfs)">>],
      [host |-> REMOTE_HOST, fs |-> "smbfs",
       parts |-> <<"map -smbfs 192.168.1.100">>] }

MountProbes ==
    {[b |-> "exit0", out |-> o] : o \in SeqsUpTo(MountLines, MaxMountLines)}
    \cup {[b |-> x, out |-> <<>>] : x \in Behaviours \ {"exit0"}}

\* s.split(" (")[0]
BeforeParen(s) ==
    LET at == {i \in 1..(Len(s) - 1) : SubSeq(s, i, i + 1) = " ("}
    IN  IF at = {} THEN s
        ELSE SubSeq(s, 1, (CHOOSE i \in at : \A j \in at : i <= j) - 1)

mount_point(line) ==
    IF Len(line.parts) > 1 THEN BeforeParen(line.parts[2]) ELSE "mounted"

MountMatches(line) ==
    line.host = REMOTE_HOST /\ (line.fs = "smbfs" \/ line.fs = "cifs")

\* check_smb without its try/except: the exception of a failed mount leaves
\* the checker in the place of a status.
check_smb_unguarded(probe) ==
    LET outcome == SubprocessCheck(probe.b, TRUE)
        out == probe.out
        hits == {i \in 1..Len(out) : MountMatches(out[i])}
    IN  IF Raised(outcome)
        THEN Status("raise", ExcText(outcome, "['mount']", "mount", "5"))
        ELSE IF hits # {}
             THEN Status("connected",
                         mount_point(out[CHOOSE i \in hits : \A j \in hits : i <= j]))
        ELSE Status("down", "No mount found")

check_smb(probe) ==
    LET outcome == SubprocessCheck(probe.b, TRUE)
        out == probe.out
        hits == {i \in 1..Len(out) : MountMatches(out[i])}
    IN  IF Raised(outcome)
        THEN Status("down", ErrorDetail(ExcText(outcome, "['mount']", "mount", "5")))
        ELSE IF hits # {}
             THEN Status("connected",
                         mount_point(out[CHOOSE i \in hits : \A j \in hits : i <= j]))
        ELSE Status("down", "No mount found")

\* --------------------------------------------------------------- remediators
\* What a step of a remediator leaves: how it ended ("next": control goes on,
\* "raise": an exception leaves the remediator, "blocked": the step waits for
\* a child that never exits), the text it appended or returned, and the
\* commands it spawned, in order.
StepResult(end, text, spawned) == [end |-> end, text |-> text, ran |-> spawned]

\* reconnect_barrier, first try/except: launchctl kickstart with a timeout;
\* on an exception the handler runs pkill, with no timeout and no try.
rb_server_step(launchctl, pkill) ==
    IF ~Raised(SubprocessRun(launchctl, TRUE))
    THEN StepResult("next", "Server restarted", <<"launchctl kickstart">>)
    ELSE LET fallback == SubprocessRun(pkill, FALSE)
             spawned == <<"launchctl kickstart", "pkill barriers">>
         IN  IF fallback = "returned"
             THEN StepResult("next", "Server killed (KeepAlive will restart)", spawned)
             ELSE IF fallback = "blocked" THEN StepResult("blocked", "", spawned)
             ELSE StepResult("raise", "", spawned)

\* reconnect_barrier, second try/except: ssh ... systemctl --user restart.
rb_client_step(ssh) ==
    IF Raised(SubprocessRun(ssh, TRUE))
    THEN StepResult("next", "Could not restart client", <<"ssh systemctl restart">>)
    ELSE StepResult("next", "Client restarted", <<"ssh systemctl restart">>)

\* reconnect_ssh: pkill of the tunnel with a timeout; whether it returns or
\* raises, control goes on (except Exception: pass).
rs_kill_step(pkill) ==
    IF SubprocessRun(pkill, TRUE) = "blocked"
    THEN StepResult("blocked", "", <<"pkill tunnel">>)
    ELSE StepResult("next", "", <<"pkill tunnel">>)

\* The launch reported as done whatever Popen did.
rs_launch_step_unchecked(popen) ==
    StepResult("next", "Tunnel re-established", <<"Popen tunnel">>)

\* reconnect_ssh: Popen of SSH_TUNNEL_CMD in a new session.
rs_launch_step(popen) ==
    IF Raised(SubprocessPopen(popen))
    THEN StepResult("next",
                    "Failed: " \o ExcText(SubprocessPopen(popen), "", "ssh", ""),
                    <<"Popen tunnel">>)
    ELSE StepResult("next", "Tunnel re-established", <<"Popen tunnel">>)

\* reconnect_smb: Popen of `open smb://...`.
rm_open_step(popen) ==
    IF Raised(SubprocessPopen(popen))
    THEN StepResult("next",
                    "Failed: " \o ExcText(SubprocessPopen(popen), "", "open", ""),
                    <<"Popen open">>)
    ELSE StepResult("next", "SMB share opened in Finder", <<"Popen open">>)

\* ---------------------------------------------------------------- the server
VARIABLES
    phase,      \* per client: idle, pending, running, responded, faulted
    path,       \* per client: the path of its request
    pc,         \* per handler: the step it is at
    probe,      \* per handler: what the checker that just ran read, where observed
    barrier,    \* do_GET's local barrier
    ssh,        \* do_GET's local ssh
    smb,        \* do_GET's local smb
    rb_msgs,    \* reconnect_barrier's local msgs
    msgs,       \* do_POST's msg / msgs
    ran,        \* per request: the commands its handler spawned, in order
    response,   \* per client: the JSON body it received
    contended,  \* per client: its request met one for the same service in flight
    rs_seen     \* per handler: how reconnect_ssh's pkill and Popen ended, in order

vars ==
    <<phase, path, pc, probe, barrier, ssh, smb, rb_msgs, msgs, ran, response,
      contended, rs_seen>>

NoProbe == [b |-> "none"]
NoResponse == [kind |-> "none"]

\* The remediators a request runs.
Services(p) ==
    CASE p = BarrierPath -> {"barrier"}
      [] p = SshPath -> {"ssh"}
      [] p = SmbPath -> {"smb"}
      [] p = AllPath -> {"barrier", "ssh", "smb"}
      [] OTHER -> {}

\* The remediator a handler is inside of at a step, if any.
RemediatorAt(step) ==
    CASE step \in {"rb_server", "rb_client", "rb_blocked"} -> "barrier"
      [] step \in {"rs_kill", "rs_blocked", "rs_sleep", "rs_launch"} -> "ssh"
      [] step = "rm_open" -> "smb"
      [] OTHER -> "none"

\* do_GET / do_POST dispatch on self.path.
FirstStep(p) ==
    CASE p = StatusPath -> "check_barrier"
      [] p = BarrierPath -> "rb_server"
      [] p = SshPath -> "rs_kill"
      [] p = SmbPath -> "rm_open"
      [] p = AllPath -> "rb_server"

\* do_POST: where control goes when a remediator returns.
AfterRemediator(p, remediator) ==
    IF p = AllPath
    THEN CASE remediator = "barrier" -> "rs_kill"
           [] remediator = "ssh" -> "rm_open"
           [] remediator = "smb" -> "send_message"
    ELSE "send_message"

\* The outcomes joined last to first.
PostMessageReversed(p, m) ==
    IF p = AllPath THEN Join(<<m[3], m[2], m[1]>>) ELSE m[1]

\* do_POST: the message of the response.
PostMessage(p, m) == IF p = AllPath THEN Join(m) ELSE m[1]

Running == {c \in Clients : phase[c] = "running"}

\* socketserver.ThreadingMixIn: every request gets a thread of its own.
CanAcceptThreading == TRUE

\* HTTPServer.serve_forever: one thread, which handles a request to its end
\* before it accepts the next.
CanAccept == Running = {}

Init ==
    /\ phase = [c \in Clients |-> "idle"]
    /\ path = [c \in Clients |-> "none"]
    /\ pc = [c \in Clients |-> "idle"]
    /\ probe = [c \in Clients |-> NoProbe]
    /\ barrier = [c \in Clients |-> NoStatus]
    /\ ssh = [c \in Clients |-> NoStatus]
    /\ smb = [c \in Clients |-> NoStatus]
    /\ rb_msgs = [c \in Clients |-> <<>>]
    /\ msgs = [c \in Clients |-> <<>>]
    /\ ran = [c \in Clients |-> <<>>]
    /\ response = [c \in Clients |-> NoResponse]
    /\ contended = [c \in Clients |-> FALSE]
    /\ rs_seen = [c \in Clients |-> <<>>]

\* Some other client's handler is inside a remediator this request runs too.
MeetsInFlight(c, p) ==
    \E d \in Running \ {c} : RemediatorAt(pc[d]) \in Services(p)

\* A client sends a request; it waits in the listening socket's queue.
Send(c, p) ==
    /\ phase[c] = "idle"
    /\ phase' = [phase EXCEPT ![c] = "pending"]
    /\ path' = [path EXCEPT ![c] = p]
    /\ contended' = [contended EXCEPT ![c] = MeetsInFlight(c, p)]
    /\ UNCHANGED <<pc, probe, barrier, ssh, smb, rb_msgs, msgs, ran, response,
                   rs_seen>>

\* The server takes a request off the queue and calls do_GET / do_POST.
Accept(c) ==
    /\ phase[c] = "pending"
    /\ CanAccept
    /\ phase' = [phase EXCEPT ![c] = "running"]
    /\ pc' = [pc EXCEPT ![c] = FirstStep(path[c])]
    /\ UNCHANGED <<path, probe, barrier, ssh, smb, rb_msgs, msgs, ran, response,
                   contended, rs_seen>>

At(c, step) == phase[c] = "running" /\ pc[c] = step

\* do_GET, /api/status. Where a step is observed, what its checker read from
\* its commands is kept until the next step, beside the status it made of it.
CheckBarrier(c, observed) ==
    /\ At(c, "check_barrier")
    /\ \E pr \in NetstatProbes :
          /\ probe' = [probe EXCEPT ![c] = IF observed THEN pr ELSE NoProbe]
          /\ barrier' = [barrier EXCEPT ![c] = check_barrier(pr)]
    /\ pc' = [pc EXCEPT ![c] = "check_ssh"]
    /\ ran' = [ran EXCEPT ![c] = Append(@, "netstat")]
    /\ UNCHANGED <<phase, path, ssh, smb, rb_msgs, msgs, response, contended, rs_seen>>

CheckSsh(c, observed) ==
    /\ At(c, "check_ssh")
    /\ \E pr \in SshProbes :
          /\ probe' = [probe EXCEPT ![c] = IF observed THEN pr ELSE NoProbe]
          /\ ssh' = [ssh EXCEPT ![c] = check_ssh(pr)]
    /\ pc' = [pc EXCEPT ![c] = "check_smb"]
    /\ ran' = [ran EXCEPT ![c] = @ \o <<"pgrep", "ssh echo">>]
    /\ UNCHANGED <<phase, path, barrier, smb, rb_msgs, msgs, response, contended, rs_seen>>

CheckSmb(c, observed) ==
    /\ At(c, "check_smb")
    /\ \E pr \in MountProbes :
          /\ probe' = [probe EXCEPT ![c] = IF observed THEN pr ELSE NoProbe]
          /\ smb' = [smb EXCEPT ![c] = check_smb(pr)]
    /\ pc' = [pc EXCEPT ![c] = "send_status"]
    /\ ran' = [ran EXCEPT ![c] = Append(@, "mount")]
    /\ UNCHANGED <<phase, path, barrier, ssh, rb_msgs, msgs, response, contended, rs_seen>>

\* The handler returns: its locals are gone.
HandlerEnds(c, outcome) ==
    /\ phase' = [phase EXCEPT ![c] = outcome]
    /\ pc' = [pc EXCEPT ![c] = "idle"]
    /\ probe' = [probe EXCEPT ![c] = NoProbe]
    /\ barrier' = [barrier EXCEPT ![c] = NoStatus]
    /\ ssh' = [ssh EXCEPT ![c] = NoStatus]
    /\ smb' = [smb EXCEPT ![c] = NoStatus]
    /\ rb_msgs' = [rb_msgs EXCEPT ![c] = <<>>]
    /\ msgs' = [msgs EXCEPT ![c] = <<>>]
    /\ rs_seen' = [rs_seen EXCEPT ![c] = <<>>]

\* self._json({"barrier": barrier, "ssh": ssh, "smb": smb})
SendStatus(c) ==
    /\ At(c, "send_status")
    /\ response' = [response EXCEPT ![c] =
          [kind |-> "json",
           body |-> [barrier |-> barrier[c], ssh |-> ssh[c], smb |-> smb[c]]]]
    /\ HandlerEnds(c, "responded")
    /\ UNCHANGED <<path, ran, contended>>

\* reconnect_barrier, lines 104-112
RbServer(c) ==
    /\ At(c, "rb_server")
    /\ \E launchctl \in Behaviours, pkill \in Behaviours :
          LET r == rb_server_step(launchctl, pkill)
          IN  /\ ran' = [ran EXCEPT ![c] = @ \o r.ran]
              /\ CASE r.end = "next" ->
                        /\ rb_msgs' = [rb_msgs EXCEPT ![c] = <<r.text>>]
                        /\ pc' = [pc EXCEPT ![c] = "rb_client"]
                        /\ UNCHANGED <<phase, probe, barrier, ssh, smb, msgs, rs_seen>>
                   [] r.end = "blocked" ->
                        /\ pc' = [pc EXCEPT ![c] = "rb_blocked"]
                        /\ UNCHANGED <<phase, probe, barrier, ssh, smb, rb_msgs, msgs,
                                       rs_seen>>
                   [] r.end = "raise" ->
                        HandlerEnds(c, "faulted")
    /\ UNCHANGED <<path, response, contended>>

\* reconnect_barrier, lines 114-124, and the return into do_POST
RbClient(c) ==
    /\ At(c, "rb_client")
    /\ \E b \in Behaviours :
          LET r == rb_client_step(b)
          IN  /\ ran' = [ran EXCEPT ![c] = @ \o r.ran]
              /\ msgs' = [msgs EXCEPT ![c] =
                            Append(@, Join(Append(rb_msgs[c], r.text)))]
    /\ rb_msgs' = [rb_msgs EXCEPT ![c] = <<>>]
    /\ pc' = [pc EXCEPT ![c] = AfterRemediator(path[c], "barrier")]
    /\ UNCHANGED <<phase, path, probe, barrier, ssh, smb, response, contended, rs_seen>>

\* reconnect_ssh, lines 128-134
RsKill(c) ==
    /\ At(c, "rs_kill")
    /\ \E b \in Behaviours :
          LET r == rs_kill_step(b)
          IN  /\ ran' = [ran EXCEPT ![c] = @ \o r.ran]
              /\ rs_seen' = [rs_seen EXCEPT ![c] = Append(@, SubprocessRun(b, TRUE))]
              /\ pc' = [pc EXCEPT ![c] =
                          IF r.end = "blocked" THEN "rs_blocked" ELSE "rs_sleep"]
    /\ UNCHANGED <<phase, path, probe, barrier, ssh, smb, rb_msgs, msgs, response,
                   contended>>

\* reconnect_ssh, time.sleep(1)
RsSleep(c) ==
    /\ At(c, "rs_sleep")
    /\ ran' = [ran EXCEPT ![c] = Append(@, "sleep")]
    /\ pc' = [pc EXCEPT ![c] = "rs_launch"]
    /\ UNCHANGED <<phase, path, probe, barrier, ssh, smb, rb_msgs, msgs, response,
                   contended, rs_seen>>

\* reconnect_ssh, lines 139-148, and the return into do_POST
RsLaunch(c) ==
    /\ At(c, "rs_launch")
    /\ \E b \in Behaviours :
          LET r == rs_launch_step(b)
          IN  /\ ran' = [ran EXCEPT ![c] = @ \o r.ran]
              /\ rs_seen' = [rs_seen EXCEPT ![c] = Append(@, SubprocessPopen(b))]
              /\ msgs' = [msgs EXCEPT ![c] = Append(@, r.text)]
    /\ pc' = [pc EXCEPT ![c] = AfterRemediator(path[c], "ssh")]
    /\ UNCHANGED <<phase, path, probe, barrier, ssh, smb, rb_msgs, response,
                   contended>>

\* reconnect_smb, and the return into do_POST
RmOpen(c) ==
    /\ At(c, "rm_open")
    /\ \E b \in Behaviours :
          LET r == rm_open_step(b)
          IN  /\ ran' = [ran EXCEPT ![c] = @ \o r.ran]
              /\ msgs' = [msgs EXCEPT ![c] = Append(@, r.text)]
    /\ pc' = [pc EXCEPT ![c] = AfterRemediator(path[c], "smb")]
    /\ UNCHANGED <<phase, path, probe, barrier, ssh, smb, rb_msgs, response,
                   contended, rs_seen>>

\* self._json({"message": ...})
SendMessage(c) ==
    /\ At(c, "send_message")
    /\ response' = [response EXCEPT ![c] =
          [kind |-> "json", body |-> [message |-> PostMessage(path[c], msgs[c])]]]
    /\ HandlerEnds(c, "responded")
    /\ UNCHANGED <<path, ran, contended>>

\* The client has read the response, or seen the connection closed.
Ack(c) ==
    /\ phase[c] \in {"responded", "faulted"}
    /\ phase' = [phase EXCEPT ![c] = "idle"]
    /\ path' = [path EXCEPT ![c] = "none"]
    /\ ran' = [ran EXCEPT ![c] = <<>>]
    /\ response' = [response EXCEPT ![c] = NoResponse]
    /\ contended' = [contended EXCEPT ![c] = FALSE]
    /\ UNCHANGED <<pc, probe, barrier, ssh, smb, rb_msgs, msgs, rs_seen>>

Next ==
    \E c \in Clients :
        \/ \E p \in Paths : Send(c, p)
        \/ Accept(c)
        \/ CheckBarrier(c, FALSE)
        \/ CheckSsh(c, FALSE)
        \/ CheckSmb(c, FALSE)
        \/ SendStatus(c)
        \/ RbServer(c)
        \/ RbClient(c)
        \/ RsKill(c)
        \/ RsSleep(c)
        \/ RsLaunch(c)
        \/ RmOpen(c)
        \/ SendMessage(c)
        \/ Ack(c)

Spec == Init /\ [][Next]_vars

\* One client polling /api/status, every checker observed.
Poller == "c1"

PollerNext ==
    \/ Send(Poller, StatusPath)
    \/ Accept(Poller)
    \/ CheckBarrier(Poller, TRUE)
    \/ CheckSsh(Poller, TRUE)
    \/ CheckSmb(Poller, TRUE)
    \/ SendStatus(Poller)
    \/ Ack(Poller)

CheckerSpec == Init /\ [][PollerNext]_vars

\* ===================================================================== claims
Range(f) == {f[i] : i \in DOMAIN f}

Others(c) == Clients \ {c}

\* The steps of reconnect_ssh after its pkill and up to its Popen.
BetweenKillAndRelaunch(c) == At(c, "rs_sleep") \/ At(c, "rs_launch")

\* The remediator handler c is executing, "none" if it is in none.
Executing(c) == IF phase[c] = "running" THEN RemediatorAt(pc[c]) ELSE "none"

\* C1: at most one execution of reconnect_ssh is between its kill step and
\* its relaunch step at any time, and no remediator of any service is being
\* executed by two handlers at once.
C1_RemediatorNeverConcurrentWithItself ==
    /\ Cardinality({c \in Clients : BetweenKillAndRelaunch(c)}) <= 1
    /\ \A c \in Clients : \A d \in Others(c) :
          Executing(c) # "none" => Executing(d) # Executing(c)

\* A second POST /api/reconnect/ssh has arrived while the first is between
\* kill and relaunch.
C1_Witness ==
    \E c \in Clients : \E d \in Others(c) :
        /\ BetweenKillAndRelaunch(c)
        /\ phase[d] = "pending"
        /\ path[d] = SshPath

\* The messages the remediators of the single-service paths return.
BarrierOutcomes ==
    { "Server restarted; Client restarted",
      "Server restarted; Could not restart client",
      "Server killed (KeepAlive will restart); Client restarted",
      "Server killed (KeepAlive will restart); Could not restart client" }

SshOutcomes ==
    { "Tunnel re-established",
      "Failed: [Errno 2] No such file or directory: 'ssh'" }

SmbOutcomes ==
    { "SMB share opened in Finder",
      "Failed: [Errno 2] No such file or directory: 'open'" }

RemediatorOutcomes(p) ==
    CASE p = BarrierPath -> BarrierOutcomes
      [] p = SshPath -> SshOutcomes
      [] p = SmbPath -> SmbOutcomes
      [] OTHER -> {}

SingleServicePaths == {BarrierPath, SshPath, SmbPath}

Message(c) == response[c].body.message

AnsweredAll(c) == phase[c] = "responded" /\ path[c] = AllPath

\* C3 as stated: the message of POST /api/reconnect/all has exactly three
\* segments joined by semicolons.
C3_ExactlyThreeSegments ==
    \A c \in Clients : AnsweredAll(c) => Segments(Message(c)) = 3

\* C3 amended: the message of POST /api/reconnect/all is the messages of
\* reconnect_barrier, reconnect_ssh and reconnect_smb joined by "; " in that
\* order; the message of reconnect_barrier is itself two segments joined by
\* "; ", so the whole has exactly four segments: server step, client step,
\* tunnel, share.
C3_FourSegmentsInOrder ==
    \A c \in Clients :
        AnsweredAll(c) =>
            /\ Segments(Message(c)) = 4
            /\ Segment(Message(c), 1) \o Separator \o Segment(Message(c), 2)
                  \in BarrierOutcomes
            /\ Segment(Message(c), 3) \in SshOutcomes
            /\ Segment(Message(c), 4) \in SmbOutcomes

\* A reconnect-all has been answered after a step of each remediator failed.
C3_Witness ==
    \E c \in Clients :
        /\ AnsweredAll(c)
        /\ Segment(Message(c), 2) = "Could not restart client"
        /\ Segment(Message(c), 3) # "Tunnel re-established"
        /\ Segment(Message(c), 4) = "SMB share opened in Finder"

\* C4: every remediation operation returns a message whatever its external
\* commands do; no exception leaves a remediator into the HTTP handler.
C4_NoExceptionLeavesRemediator ==
    \A c \in Clients : path[c] \in Paths \ {StatusPath} => phase[c] # "faulted"

\* C5: in reconnect_barrier the remote client restart is attempted whatever
\* became of the local server restart and of its fallback: once a handler has
\* spawned launchctl and is no longer inside reconnect_barrier, it has
\* spawned the ssh systemctl restart too.
C5_ClientRestartAlwaysAttempted ==
    \A c \in Clients :
        ("launchctl kickstart" \in Range(ran[c]) /\ Executing(c) # "barrier")
            => "ssh systemctl restart" \in Range(ran[c])

\* What an observed checker read, for the handler that has just run it.
Observed(c, step) == At(c, step) /\ probe[c] # NoProbe

\* The two signals of check_ssh, read off the commands themselves: pgrep
\* exited 0 and printed a pid; the remote echo exited 0. A command that is
\* missing, exits non-zero or is killed at its timeout gives "no".
ProcessPresent(pr) == pr.pgrep = "exit0" /\ pr.out # ""
RemoteSucceeds(pr) == pr.ssh = "exit0"

SshTable(present, succeeds) ==
    CASE present /\ succeeds -> Status("connected", "Tunnel active")
      [] ~present /\ succeeds -> Status("warning", "SSH OK, tunnel down")
      [] present /\ ~succeeds ->
            Status("warning", "Tunnel proc exists, SSH unreachable")
      [] ~present /\ ~succeeds -> Status("down", "Unreachable")

\* C6: check_ssh maps (tunnel process present, remote command succeeds) to
\* (yes, yes) connected; (no, yes) warning, reachable but tunnel down;
\* (yes, no) warning, process exists but unreachable; (no, no) down; a probe
\* that errors or times out counts as "no".
C6_SshStatusFollowsTable ==
    \A c \in Clients :
        Observed(c, "check_smb") =>
            ssh[c] = SshTable(ProcessPresent(probe[c]), RemoteSucceeds(probe[c]))

\* The tunnel process is there and the remote command timed out.
C6_Witness ==
    \E c \in Clients :
        /\ Observed(c, "check_smb")
        /\ ProcessPresent(probe[c])
        /\ probe[c].ssh = "hang"
        /\ ssh[c] = Status("warning", "Tunnel proc exists, SSH unreachable")

\* The lines of the connection listing check_barrier got to read.
Listing(pr) == IF pr.b = "exit0" THEN pr.out ELSE <<>>

EstablishedOnPort(pr) ==
    \E i \in DOMAIN Listing(pr) :
        Listing(pr)[i].port = BARRIER_PORT /\ Listing(pr)[i].state = "ESTABLISHED"

ListeningOnPort(pr) ==
    \E i \in DOMAIN Listing(pr) :
        Listing(pr)[i].port = BARRIER_PORT /\ Listing(pr)[i].state = "LISTEN"

\* C7: check_barrier returns connected whenever any line matches the port
\* and is established, wherever it stands relative to listening lines;
\* warning only if there is no such line and some line matches the port and
\* is listening; down otherwise.
C7_EstablishedBeforeListening ==
    \A c \in Clients :
        Observed(c, "check_ssh") =>
            barrier[c].status =
                IF EstablishedOnPort(probe[c]) THEN "connected"
                ELSE IF ListeningOnPort(probe[c]) THEN "warning"
                ELSE "down"

\* A listening line on the port stands before an established one.
C7_Witness ==
    \E c \in Clients :
        /\ Observed(c, "check_ssh")
        /\ \E i, j \in DOMAIN Listing(probe[c]) :
              /\ i < j
              /\ Listing(probe[c])[i] = [port |-> BARRIER_PORT, state |-> "LISTEN"]
              /\ Listing(probe[c])[j] = [port |-> BARRIER_PORT, state |-> "ESTABLISHED"]
        /\ barrier[c].status = "connected"

\* A command gave the checker nothing: it printed nothing, failed or was
\* killed at its timeout.
GaveNothing(b, out) == b # "exit0" \/ out = <<>>

DownAndShort(st) == st.status = "down" /\ Len(st.detail) <= DetailLimit

PgrepGaveNothing(pr) == pr.pgrep # "exit0" \/ pr.out = ""
EchoFailed(pr) == pr.ssh # "exit0"

\* C8 as stated: whenever a probe of a checker produces no output, an error
\* or a timeout, the checker returns down with a detail of at most 60
\* characters.
C8_AnyProbeFailureIsDown ==
    \A c \in Clients :
        /\ (Observed(c, "check_ssh") /\ GaveNothing(probe[c].b, probe[c].out)
                => DownAndShort(barrier[c]))
        /\ (Observed(c, "check_smb")
                /\ (PgrepGaveNothing(probe[c]) \/ EchoFailed(probe[c]))
                => DownAndShort(ssh[c]))
        /\ (Observed(c, "send_status") /\ GaveNothing(probe[c].b, probe[c].out)
                => DownAndShort(smb[c]))

\* C8 amended: check_barrier and check_smb return down with a detail of at
\* most 60 characters whenever their probe produces no output, an error or a
\* timeout. check_ssh returns down, with such a detail, when both of its
\* probes do; when only one of them does it returns warning.
C8_ProbeFailureIsDownOrSshWarning ==
    \A c \in Clients :
        /\ (Observed(c, "check_ssh") /\ GaveNothing(probe[c].b, probe[c].out)
                => DownAndShort(barrier[c]))
        /\ (Observed(c, "check_smb")
                /\ PgrepGaveNothing(probe[c]) /\ EchoFailed(probe[c])
                => DownAndShort(ssh[c]))
        /\ (Observed(c, "check_smb")
                /\ (PgrepGaveNothing(probe[c]) # EchoFailed(probe[c]))
                => ssh[c].status = "warning")
        /\ (Observed(c, "send_status") /\ GaveNothing(probe[c].b, probe[c].out)
                => DownAndShort(smb[c]))

\* netstat exited non-zero: str(e) is 61 characters long.
C8_Witness ==
    \E c \in Clients :
        /\ Observed(c, "check_ssh")
        /\ probe[c].b = "nonzero"
        /\ Len(ExcText("CalledProcessError", "['netstat', '-an']", "netstat", "5"))
              > DetailLimit
        /\ DownAndShort(barrier[c])

AnsweredStatus(c) == phase[c] = "responded" /\ path[c] = StatusPath

Failed(pr) == pr.b # "exit0"

HandlerStep(c) ==
    \/ CheckBarrier(c, FALSE)
    \/ CheckSsh(c, FALSE)
    \/ CheckSmb(c, FALSE)
    \/ SendStatus(c)
    \/ RbServer(c)
    \/ RbClient(c)
    \/ RsKill(c)
    \/ RsSleep(c)
    \/ RsLaunch(c)
    \/ RmOpen(c)
    \/ SendMessage(c)

\* C10: every blocking external command has an enforced timeout, so a
\* handler never waits for ever on a command that does not terminate: a
\* running handler always has a next step to take (its steps are finitely
\* many and never repeat, so it returns).
C10_RunningHandlerCanProceed ==
    \A c \in Clients : phase[c] = "running" => ENABLED HandlerStep(c)

\* The commands of reconnect_ssh, in the order of its text.
SshOrder == <<"pkill tunnel", "sleep", "Popen tunnel">>

\* The commands only the checkers run.
CheckerCommands == {"netstat", "pgrep", "ssh echo", "mount"}

IsSshCommand(x) == x \in Range(SshOrder)

\* What the handler of c's request has done of reconnect_ssh so far.
SshPart(c) == SelectSeq(ran[c], IsSshCommand)

IsPrefix(a, b) == Len(a) <= Len(b) /\ a = SubSeq(b, 1, Len(a))

\* reconnect_ssh has returned into the handler of c, which is still running.
ReturnedFromSsh(c) == phase[c] = "running" /\ Len(rs_seen[c]) = 2

\* The value reconnect_ssh returned to do_POST.
SshReturn(c) == IF path[c] = AllPath THEN msgs[c][2] ELSE msgs[c][1]

\* C11: every execution of reconnect_ssh kills the tunnel process, then
\* waits, then launches the tunnel, in that order; the launch is attempted
\* exactly once whether or not the kill succeeded, and the call returns
\* "Tunnel re-established" exactly when the launch did not fail; it never
\* runs a command that checks whether the tunnel is connected.
C11_KillWaitRelaunchOnce ==
    \A c \in Clients :
        /\ IsPrefix(SshPart(c), SshOrder)
        /\ (path[c] \in Paths \ {StatusPath} =>
                Range(ran[c]) \cap CheckerCommands = {})
        /\ (ReturnedFromSsh(c) =>
                /\ SshPart(c) = SshOrder
                /\ (SshReturn(c) = "Tunnel re-established")
                      = (rs_seen[c][2] = "returned"))
        /\ (phase[c] = "responded" /\ path[c] \in {SshPath, AllPath} =>
                SshPart(c) = SshOrder)
        /\ (phase[c] = "responded" /\ path[c] = SshPath =>
                Message(c) \in SshOutcomes)

\* The kill raised, the launch did not fail, and success was returned.
C11_Witness ==
    \E c \in Clients :
        /\ ReturnedFromSsh(c)
        /\ Raised(rs_seen[c][1])
        /\ rs_seen[c][2] = "returned"
        /\ SshReturn(c) = "Tunnel re-established"
        /\ SshPart(c) = SshOrder

\* A handler is computing the status snapshot.
ComputingSnapshot(c) ==
    phase[c] = "running"
    /\ pc[c] \in {"check_barrier", "check_ssh", "check_smb", "send_status"}

\* C12: the server handles requests strictly one at a time: at most one
\* handler is executing at any moment, no snapshot is computed while
\* reconnect_ssh is between its kill and its relaunch, and while a handler is
\* inside a remediator no other handler is inside any remediator.
C12_OneRequestAtATime ==
    /\ Cardinality(Running) <= 1
    /\ \A c \in Clients : \A d \in Others(c) :
          /\ BetweenKillAndRelaunch(c) => ~ComputingSnapshot(d)
          /\ Executing(c) # "none" => Executing(d) = "none"

\* A status request has arrived while reconnect_ssh is between kill and
\* relaunch, and waits.
C12_Witness ==
    \E c \in Clients : \E d \in Others(c) :
        /\ BetweenKillAndRelaunch(c)
        /\ phase[d] = "pending"
        /\ path[d] = StatusPath

====
